---- MODULE Spec2Model ----
(***************************************************************************)
(* Model of two presentation components of the Openverse frontend:         *)
(*   - VButton.vue      (the polymorphic button: derived attributes,       *)
(*                       classes and the migration warning watcher)        *)
(*   - VSafetyWall.vue  (the sensitive-content interstitial with its       *)
(*                       "back" link and "show" button)                    *)
(* JavaScript values are modelled as tagged records so that truthiness,    *)
(* `||`, `&&` and `undefined` behave as they do in the source.             *)
(***************************************************************************)
EXTENDS Integers, Sequences, FiniteSets, TLC

VARIABLES
  \* ---- VButton: props (defineProps) and pass-through attrs (useAttrs)
  as,                    \* props.as
  variant,               \* props.variant
  pressed,               \* props.pressed (true / false / undefined)
  disabled,              \* props.disabled
  focusableWhenDisabled, \* props.focusableWhenDisabled
  type,                  \* the `type` the caller passes (or undefined)
  connections,           \* props.connections (ordered edge flags)
  href,                  \* attrs.href
  ariaPressedAttr,       \* attrs["aria-pressed"]
  ariaExpandedAttr,      \* attrs["aria-expanded"]
  warnings,              \* messages passed to warn(), oldest first
  \* ---- VSafetyWall: props, store, collaborators and the pointer
  id,                    \* props.id
  sensitivity,           \* props.sensitivity (ordered reason codes)
  backToSearchPath,      \* searchStore.backToSearchPath
  analytics,             \* calls of $sendCustomEvent, oldest first
  reveals,               \* emissions of the component's "reveal" signal
  navigations,           \* navigations started from the back control
  gate,                  \* the embedding context's Hidden/Revealed state
  heldOn,                \* control a mouse button or key is held down on
  lastEvent,             \* the native event delivered by the last step
  focusedOn,             \* control that has the keyboard focus
  emitted                \* what the control's VButton emitted for lastEvent

buttonVars == <<as, variant, pressed, disabled, focusableWhenDisabled, type,
                connections, href, ariaPressedAttr, ariaExpandedAttr, warnings>>
wallVars == <<id, sensitivity, backToSearchPath, analytics, reveals,
              navigations, gate, heldOn, lastEvent, focusedOn, emitted>>
vars == <<buttonVars, wallVars>>

----------------------------------------------------------------------------
(* Bounds of the model.                                                    *)
MaxWarnings == 2     \* warn() calls followed per run
MaxReasons == 2      \* sensitivity reason codes per content item
MaxEmissions == 2    \* analytics emissions and reveal signals per run
MaxNavigations == 2  \* navigations from the back control per run
MaxConnections == 2  \* edge flags in props.connections

----------------------------------------------------------------------------
(* JavaScript values.                                                      *)
Undefined == [kind |-> "undefined", b |-> FALSE, s |-> ""]
JSBool(v) == [kind |-> "boolean", b |-> v, s |-> ""]
JSStr(v) == [kind |-> "string", b |-> FALSE, s |-> v]

\* ToBoolean: undefined, false and the empty string are falsy.
Truthy(v) ==
  CASE v.kind = "boolean" -> v.b
    [] v.kind = "string" -> v.s # ""
    [] OTHER -> FALSE

\* x || y and x && y return one of their operands, not a boolean.
JSOr(x, y) == IF Truthy(x) THEN x ELSE y
JSAnd(x, y) == IF Truthy(x) THEN y ELSE x
JSNot(x) == JSBool(~Truthy(x))

\* Array.prototype.includes over strings (strict equality).
Includes(arr, v) == \E i \in 1..Len(arr) : arr[i] = v

\* Array.prototype.join
RECURSIVE Join(_, _)
Join(arr, sep) ==
  IF Len(arr) = 0 THEN ""
  ELSE IF Len(arr) = 1 THEN arr[1]
  ELSE arr[1] \o sep \o Join(Tail(arr), sep)

\* String.prototype.startsWith
StartsWith(str, prefix) ==
  /\ Len(str) >= Len(prefix)
  /\ SubSeq(str, 1, Len(prefix)) = prefix

----------------------------------------------------------------------------
(* VButton.vue                                                             *)

skipToContentTargetId == "content"

\* The values `as` takes: the two documented forms, the raw anchor kept for
\* the skip-to-content button, and NuxtLink, which the watcher names.
ButtonForm == {"button", "VLink", "a", "NuxtLink"}
ButtonType == {"button", "submit"}
TypeInputs == {Undefined} \cup {JSStr(t) : t \in ButtonType}
ButtonVariant == {"filled-dark", "bordered-white", "bordered-tx",
                  "bordered-gray", "transparent-dark", "plain",
                  "plain--avoid"}
PressedValues == {Undefined, JSBool(TRUE), JSBool(FALSE)}
AttrValues == {Undefined, JSBool(TRUE), JSBool(FALSE), JSStr("false")}
ButtonConnections == {"start", "end", "top", "bottom"}
ConnectionLists ==
  UNION {[1..n -> ButtonConnections] : n \in 0..MaxConnections}
HrefValues == {Undefined, JSStr("#" \o skipToContentTargetId), JSStr("/search")}

\* computed: buttonComponent
buttonComponent == IF as = "VLink" THEN "VLinkComponent" ELSE as

\* withDefaults: type defaults to "button" when the caller passes none.
propsType == IF type = Undefined THEN JSStr("button") ELSE type

\* Mutant: the type is dropped for VLink only, not for the raw anchor.
typeAttribute_OnlyVLink == IF as = "VLink" THEN Undefined ELSE propsType

\* computed: typeAttribute
typeAttribute ==
  IF Includes(<<"VLink", "a">>, as) THEN Undefined ELSE propsType

\* Mutant: aria-expanded is not consulted.
isActive_NoExpanded == JSOr(pressed, ariaPressedAttr)

\* computed: isActive (the value of the || chain, not coerced)
isActive == JSOr(JSOr(pressed, ariaPressedAttr), ariaExpandedAttr)

\* Mutant: every variant gets the pressed suffix when active.
variantClass_AnyVariant ==
  IF Truthy(isActive) THEN variant \o "-pressed" ELSE variant

\* computed: variantClass
variantClass ==
  IF /\ Truthy(isActive)
     /\ Includes(<<"bordered-white", "bordered-tx", "transparent-dark">>, variant)
  THEN variant \o "-pressed"
  ELSE variant

\* Mutant: every form is taken to support the disabled attribute.
supportsDisabledAttribute_Always == JSBool(TRUE)

\* computed: supportsDisabledAttribute
supportsDisabledAttribute == JSBool(as # "VLink")

\* Mutant: focusableWhenDisabled is not consulted.
ariaDisabled_IgnoresFocusable == JSOr(JSBool(disabled), Undefined)

\* computed: ariaDisabled
ariaDisabled ==
  JSOr(JSAnd(JSBool(disabled), JSBool(focusableWhenDisabled)), Undefined)

\* Mutant: focusableWhenDisabled is not consulted.
disabledAttribute_IgnoresFocusable ==
  JSOr(JSAnd(JSBool(disabled), supportsDisabledAttribute), Undefined)

\* computed: disabledAttribute
disabledAttribute ==
  LET trulyDisabled == JSAnd(JSBool(disabled), JSNot(JSBool(focusableWhenDisabled)))
  IN JSOr(JSAnd(trulyDisabled, supportsDisabledAttribute), Undefined)

\* The message of the migration warning (the source's backquotes around
\* VLink and href are left out).
WarnMessage(form) ==
  "Please use VLink with an href prop instead of " \o form
    \o " for the button component"

\* Mutant: the skip-to-content href is not exempted.
WatchAs_NoHrefCheck(form, h, log) ==
  IF Includes(<<"a", "NuxtLink">>, form)
  THEN Append(log, WarnMessage(form))
  ELSE log

\* The callback of watch(() => props.as, ..., { immediate: true }), run with
\* the form `form` while attrs.href is `h`: the warnings after the call.
WatchAs(form, h, log) ==
  IF /\ Includes(<<"a", "NuxtLink">>, form)
     /\ h # JSStr("#" \o skipToContentTargetId)
  THEN Append(log, WarnMessage(form))
  ELSE log

\* computed: linkProps (the object spread onto the rendered element)
linkProps == IF as = "VLink" THEN href ELSE Undefined

\* Mutant: the tokens are joined with commas.
connectionStyles_CommaJoined ==
  Join([i \in 1..Len(connections) |-> "connection-" \o connections[i]], ",")

\* computed: connectionStyles
connectionStyles ==
  Join([i \in 1..Len(connections) |-> "connection-" \o connections[i]], " ")

\* computed: isPlainDangerous
isPlainDangerous == variant = "plain--avoid"

\* computed: isFocusSlimFilled
isFocusSlimFilled == StartsWith(variant, "filled-")

\* Mutant: every variant that starts with "plain" gets the slim ring.
isFocusSlimTx_PlainPrefix ==
  \/ StartsWith(variant, "bordered-")
  \/ StartsWith(variant, "transparent-")
  \/ StartsWith(variant, "plain")

\* computed: isFocusSlimTx
isFocusSlimTx ==
  \/ StartsWith(variant, "bordered-")
  \/ StartsWith(variant, "transparent-")
  \/ variant = "plain"

\* The object in the template's :class array: the classes whose condition
\* holds (the icon classes, which depend on props not modelled, left out).
classObject ==
  (IF ~isPlainDangerous THEN {"border"} ELSE {})
    \cup (IF isPlainDangerous THEN {"focus-visible:outline-tx"} ELSE {})
    \cup (IF isFocusSlimFilled THEN {"focus-slim-filled"} ELSE {})
    \cup (IF isFocusSlimTx THEN {"focus-slim-tx"} ELSE {})

\* The attributes the template binds on the rendered element.
Template ==
  [is |-> buttonComponent,
   type |-> typeAttribute,
   class |-> variantClass,
   connectionStyles |-> connectionStyles,
   classObject |-> classObject,
   ariaPressed |-> pressed,
   ariaDisabled |-> ariaDisabled,
   disabled |-> disabledAttribute,
   href |-> linkProps]

\* An attribute bound to undefined is not rendered.
Emitted(attr) == Template[attr].kind # "undefined"

----------------------------------------------------------------------------
(* VSafetyWall.vue: the values it starts from.                             *)
NoEvent == [target |-> "none", type |-> "none", device |-> "none"]

WallIdle ==
  /\ id = "img-1"
  /\ sensitivity = <<"sensitive_text">>
  /\ backToSearchPath = JSStr("")
  /\ analytics = <<>>
  /\ reveals = <<>>
  /\ navigations = <<>>
  /\ gate = "Hidden"
  /\ heldOn = "none"
  /\ lastEvent = NoEvent
  /\ focusedOn = "none"
  /\ emitted = <<>>

----------------------------------------------------------------------------
(* VButton: a button whose form, href, disabled flags and type the parent  *)
(* re-renders (Spec), and one whose variant and active inputs it           *)
(* re-renders (StyleSpec).                                                 *)

StyleDefaults ==
  /\ variant = "bordered-gray"
  /\ pressed = Undefined
  /\ ariaPressedAttr = Undefined
  /\ ariaExpandedAttr = Undefined
  /\ connections = <<>>

FormDefaults ==
  /\ as = "button"
  /\ disabled = FALSE
  /\ focusableWhenDisabled = FALSE
  /\ type = Undefined
  /\ href = Undefined
  /\ warnings = <<>>

\* Setup: the props are bound and the immediate watcher has run once.
Init ==
  /\ as \in ButtonForm
  /\ href \in HrefValues
  /\ disabled \in BOOLEAN
  /\ focusableWhenDisabled \in BOOLEAN
  /\ type \in TypeInputs
  /\ warnings = WatchAs(as, href, <<>>)
  /\ StyleDefaults
  /\ WallIdle

\* The parent re-renders with a new form and/or href. Props and attrs are
\* updated together; the watcher runs only if props.as changed.
UpdateForm ==
  \E newAs \in ButtonForm, newHref \in HrefValues :
    /\ <<newAs, newHref>> # <<as, href>>
    /\ as' = newAs
    /\ href' = newHref
    /\ warnings' = IF newAs # as THEN WatchAs(newAs, newHref, warnings)
                                 ELSE warnings
    /\ Len(warnings') <= MaxWarnings
    /\ UNCHANGED <<variant, pressed, disabled, focusableWhenDisabled, type,
                   ariaPressedAttr, ariaExpandedAttr, connections, wallVars>>

UpdateDisabled ==
  \E d \in BOOLEAN, f \in BOOLEAN :
    /\ <<d, f>> # <<disabled, focusableWhenDisabled>>
    /\ disabled' = d
    /\ focusableWhenDisabled' = f
    /\ UNCHANGED <<as, variant, pressed, type, href, ariaPressedAttr,
                   ariaExpandedAttr, warnings, connections, wallVars>>

UpdateType ==
  \E t \in TypeInputs :
    /\ t # type
    /\ type' = t
    /\ UNCHANGED <<as, variant, pressed, disabled, focusableWhenDisabled,
                   href, ariaPressedAttr, ariaExpandedAttr, warnings, connections, wallVars>>

Next == UpdateForm \/ UpdateDisabled \/ UpdateType

Spec == Init /\ [][Next]_vars

StyleInit ==
  /\ variant \in ButtonVariant
  /\ pressed \in PressedValues
  /\ ariaPressedAttr \in AttrValues
  /\ ariaExpandedAttr \in AttrValues
  /\ connections \in ConnectionLists
  /\ FormDefaults
  /\ WallIdle

UpdateVariant ==
  \E v \in ButtonVariant :
    /\ v # variant
    /\ variant' = v
    /\ UNCHANGED <<as, pressed, disabled, focusableWhenDisabled, type, href,
                   ariaPressedAttr, ariaExpandedAttr, warnings, connections, wallVars>>

UpdatePressed ==
  \E p \in PressedValues :
    /\ p # pressed
    /\ pressed' = p
    /\ UNCHANGED <<as, variant, disabled, focusableWhenDisabled, type, href,
                   ariaPressedAttr, ariaExpandedAttr, warnings, connections, wallVars>>

UpdateAttrs ==
  \E ap \in AttrValues, ae \in AttrValues :
    /\ <<ap, ae>> # <<ariaPressedAttr, ariaExpandedAttr>>
    /\ ariaPressedAttr' = ap
    /\ ariaExpandedAttr' = ae
    /\ UNCHANGED <<as, variant, pressed, disabled, focusableWhenDisabled,
                   type, href, warnings, connections, wallVars>>

UpdateConnections ==
  \E c \in ConnectionLists :
    /\ c # connections
    /\ connections' = c
    /\ UNCHANGED <<as, variant, pressed, disabled, focusableWhenDisabled,
                   type, href, ariaPressedAttr, ariaExpandedAttr, warnings,
                   wallVars>>

StyleNext == UpdateVariant \/ UpdatePressed \/ UpdateAttrs \/ UpdateConnections

StyleSpec == StyleInit /\ [][StyleNext]_vars

----------------------------------------------------------------------------
(* VSafetyWall.vue                                                         *)

ContentIds == {"img-1", "aud-2"}
Sensitivity == {"sensitive_text", "user_reported_sensitive",
                "provider_supplied_sensitive"}
\* The reason codes of a sensitive item: non-empty, no code twice.
SensitivityLists ==
  {l \in UNION {[1..n -> Sensitivity] : n \in 1..MaxReasons} :
     \A i, j \in 1..Len(l) : l[i] = l[j] => i = j}
SearchPaths == {JSStr(""), JSStr("/search?q=cat")}
Controls == {"back", "show"}
Devices == {"mouse", "keyboard"}

\* Mutant: no fallback to the site root.
backHref_NoFallback == backToSearchPath

\* :href="backToSearchPath || '/'" on the back control
backHref == JSOr(backToSearchPath, JSStr("/"))

\* Mutant: the reasons are joined with ", " instead of ",".
handleBack_SpaceAfterComma ==
  /\ analytics' = Append(analytics,
       [name |-> "GO_BACK_FROM_SENSITIVE_RESULT",
        payload |-> [id |-> id, sensitivities |-> Join(sensitivity, ", ")]])
  /\ UNCHANGED reveals

\* Mutant: going back also raises the reveal signal.
handleBack_AlsoReveals ==
  /\ analytics' = Append(analytics,
       [name |-> "GO_BACK_FROM_SENSITIVE_RESULT",
        payload |-> [id |-> id, sensitivities |-> Join(sensitivity, ",")]])
  /\ reveals' = Append(reveals, [name |-> "reveal", args |-> <<>>])

\* const handleBack = () => { $sendCustomEvent(...) }
handleBack ==
  /\ analytics' = Append(analytics,
       [name |-> "GO_BACK_FROM_SENSITIVE_RESULT",
        payload |-> [id |-> id, sensitivities |-> Join(sensitivity, ",")]])
  /\ UNCHANGED reveals

\* Mutant: showing the content is also reported to analytics.
handleShow_AlsoTracks ==
  /\ reveals' = Append(reveals, [name |-> "reveal", args |-> <<>>])
  /\ analytics' = Append(analytics,
       [name |-> "REVEAL_SENSITIVE_RESULT",
        payload |-> [id |-> id, sensitivities |-> Join(sensitivity, ",")]])

\* const handleShow = () => { emit("reveal") }
handleShow ==
  /\ reveals' = Append(reveals, [name |-> "reveal", args |-> <<>>])
  /\ UNCHANGED analytics

\* Mutant: the @keydown binding is missing.
VButtonEmits_NoKeydown(nativeEvent) ==
  IF nativeEvent.type \in {"click", "mousedown", "focus", "blur"}
  THEN <<[name |-> nativeEvent.type, args |-> <<nativeEvent>>]>>
  ELSE <<>>

\* VButton re-emits each native event it binds: $emit(<name>, $event).
\* Events it binds no listener for are not emitted.
VButtonEmits(nativeEvent) ==
  IF nativeEvent.type \in {"click", "mousedown", "keydown", "focus", "blur"}
  THEN <<[name |-> nativeEvent.type, args |-> <<nativeEvent>>]>>
  ELSE <<>>

\* The listeners VSafetyWall binds on its two VButtons:
\* @mousedown="handleBack" on the back control, @click="handleShow" on the
\* show control.
WallListener(control, emissions) ==
  IF control = "back" /\ \E i \in 1..Len(emissions) : emissions[i].name = "mousedown"
  THEN handleBack
  ELSE IF control = "show" /\ \E i \in 1..Len(emissions) : emissions[i].name = "click"
  THEN handleShow
  ELSE UNCHANGED <<analytics, reveals>>

\* The browser's default action for a click: the back control is rendered
\* as a link and follows its href; the show control is a type="button"
\* button and does nothing by itself.
DefaultAction(control, nativeType) ==
  IF control = "back" /\ nativeType = "click"
  THEN /\ Len(navigations) < MaxNavigations
       /\ navigations' = Append(navigations, linkProps)
  ELSE UNCHANGED navigations

\* The embedding context reacts to the reveal signal by showing the content.
EmbeddingContext ==
  gate' = IF reveals' # reveals THEN "Revealed" ELSE gate

\* A native event of type nativeType reaches the control.
Dispatch(control, nativeType, device) ==
  LET nativeEvent == [target |-> control, type |-> nativeType, device |-> device]
  IN /\ emitted' = VButtonEmits(nativeEvent)
     /\ WallListener(control, emitted')
     /\ DefaultAction(control, nativeType)
     /\ EmbeddingContext
     /\ Len(analytics') <= MaxEmissions
     /\ Len(reveals') <= MaxEmissions
     /\ lastEvent' = nativeEvent

\* The wall is mounted for one sensitive item; its back control is the
\* VButton the button variables describe.
WallInit ==
  /\ id \in ContentIds
  /\ sensitivity \in SensitivityLists
  /\ backToSearchPath \in SearchPaths
  /\ analytics = <<>>
  /\ reveals = <<>>
  /\ navigations = <<>>
  /\ gate = "Hidden"
  /\ heldOn = "none"
  /\ lastEvent = NoEvent
  /\ focusedOn = "none"
  /\ emitted = <<>>
  /\ as = "VLink"
  /\ variant = "filled-dark"
  /\ href = backHref
  /\ pressed = Undefined
  /\ disabled = FALSE
  /\ focusableWhenDisabled = FALSE
  /\ type = Undefined
  /\ connections = <<>>
  /\ ariaPressedAttr = Undefined
  /\ ariaExpandedAttr = Undefined
  /\ warnings = WatchAs(as, href, <<>>)

wallFrame == <<as, variant, pressed, disabled, focusableWhenDisabled, type,
               connections,
               href, ariaPressedAttr, ariaExpandedAttr, warnings, id,
               sensitivity, backToSearchPath>>

\* A mouse button goes down on a control, or an activation key (Enter)
\* goes down while the control has focus.
Press ==
  \E control \in Controls, device \in Devices :
    /\ heldOn = "none"
    /\ device = "keyboard" => focusedOn = control
    /\ Dispatch(control, IF device = "mouse" THEN "mousedown" ELSE "keydown",
                device)
    /\ heldOn' = control
    /\ UNCHANGED <<wallFrame, focusedOn>>

\* The press completes on the same control: the browser fires click.
Release ==
  /\ heldOn # "none"
  /\ Dispatch(heldOn, "click", lastEvent.device)
  /\ heldOn' = "none"
  /\ UNCHANGED <<wallFrame, focusedOn>>

\* The pointer leaves the control before the mouse button is released.
ReleaseElsewhere ==
  /\ heldOn # "none"
  /\ lastEvent.device = "mouse"
  /\ heldOn' = "none"
  /\ lastEvent' = NoEvent
  /\ emitted' = <<>>
  /\ UNCHANGED <<analytics, reveals, navigations, gate, wallFrame, focusedOn>>

\* The keyboard focus moves onto a control (Tab) while none has it.
Focus ==
  \E control \in Controls :
    /\ heldOn = "none"
    /\ focusedOn = "none"
    /\ Dispatch(control, "focus", "keyboard")
    /\ focusedOn' = control
    /\ UNCHANGED <<wallFrame, heldOn>>

\* The keyboard focus leaves the control that has it.
Blur ==
  /\ heldOn = "none"
  /\ focusedOn # "none"
  /\ Dispatch(focusedOn, "blur", "keyboard")
  /\ focusedOn' = "none"
  /\ UNCHANGED <<wallFrame, heldOn>>

\* The pointer moves onto a control: an event VButton binds no listener for.
Hover ==
  \E control \in Controls :
    /\ heldOn = "none"
    /\ lastEvent # [target |-> control, type |-> "mouseenter", device |-> "mouse"]
    /\ Dispatch(control, "mouseenter", "mouse")
    /\ UNCHANGED <<wallFrame, heldOn, focusedOn>>

\* The search store records another return path while no control is held;
\* the computed backToSearchPath changes and the back control is re-rendered
\* with the new href.
RecordSearchPath ==
  \E path \in SearchPaths :
    /\ heldOn = "none"
    /\ path # backToSearchPath
    /\ backToSearchPath' = path
    /\ href' = backHref'
    /\ warnings' = warnings
    /\ lastEvent' = NoEvent
    /\ emitted' = <<>>
    /\ UNCHANGED <<as, variant, pressed, disabled, focusableWhenDisabled,
                   type, connections, ariaPressedAttr, ariaExpandedAttr, id,
                   sensitivity, analytics, reveals, navigations, gate, heldOn, focusedOn>>

WallNext ==
  \/ Press \/ Release \/ ReleaseElsewhere
  \/ Focus \/ Blur \/ Hover
  \/ RecordSearchPath

WallSpec == WallInit /\ [][WallNext]_vars

----------------------------------------------------------------------------
(* Properties.                                                             *)

\* C1: whenever disabled and focusableWhenDisabled are both true, whatever
\* the form `as`, the element carries aria-disabled=true and no native
\* disabled attribute.
C1_FocusableDisabledUsesAria ==
  (disabled /\ focusableWhenDisabled) =>
    /\ Template.ariaDisabled = JSBool(TRUE)
    /\ ~Emitted("disabled")

C1_Witness ==
  /\ disabled /\ focusableWhenDisabled
  /\ as = "NuxtLink"
  /\ Emitted("ariaDisabled")

\* C2: whenever disabled is true and focusableWhenDisabled is false,
\* aria-disabled is not rendered; the native disabled attribute is rendered
\* for the form button and left out for the form VLink, and a render of
\* such a VLink (the first one or a later one) adds no warning.
C2_TrulyDisabled ==
  /\ (as = "VLink" /\ disabled /\ ~focusableWhenDisabled) => warnings = <<>>
  /\ [][(as' = "VLink" /\ disabled' /\ ~focusableWhenDisabled') =>
          warnings' = warnings]_vars
  /\ [](disabled /\ ~focusableWhenDisabled =>
          /\ ~Emitted("ariaDisabled")
          /\ as = "button" => Template.disabled = JSBool(TRUE)
          /\ as = "VLink" => ~Emitted("disabled"))

C2_Witness ==
  /\ disabled /\ ~focusableWhenDisabled
  /\ as = "VLink"
  /\ ~Emitted("disabled")
  /\ Len(warnings) = 1

\* C7: the first render adds one warning iff the form is `a` or NuxtLink and
\* the href is not "#" + skipToContentTargetId; afterwards a step adds one
\* warning iff it changes `as` to `a` or NuxtLink while the href it leaves
\* is not that fragment, and adds none otherwise (a change of the href
\* alone, a change to button or VLink, an href equal to the fragment).
C7_ShouldWarn(form, h) ==
  /\ form \in {"a", "NuxtLink"}
  /\ h # JSStr("#" \o skipToContentTargetId)

C7_WarningPerFormChange ==
  /\ warnings = IF C7_ShouldWarn(as, href) THEN <<WarnMessage(as)>> ELSE <<>>
  /\ [][warnings' = IF as' # as /\ C7_ShouldWarn(as', href')
                    THEN Append(warnings, WarnMessage(as'))
                    ELSE warnings]_vars

C7_Witness ==
  /\ warnings = <<WarnMessage("a"), WarnMessage("NuxtLink")>>
  /\ as = "a"
  /\ href = JSStr("#" \o skipToContentTargetId)

\* C10: for the form button the type attribute is rendered and equals the
\* configured type ("button" when none is passed); for the forms VLink and
\* `a` no type attribute is rendered.
C10_TypeAttribute ==
  /\ as = "button" =>
       /\ Emitted("type")
       /\ Template.type = (IF type = Undefined THEN JSStr("button") ELSE type)
  /\ as \in {"VLink", "a"} => ~Emitted("type")

C10_Witness ==
  /\ as = "a"
  /\ type = JSStr("submit")
  /\ ~Emitted("type")

\* The values ToBoolean maps to false, among those the model passes.
C9_Falsy == {Undefined, JSBool(FALSE), JSStr("")}

\* C9: the control is active iff pressed is true, or attrs["aria-pressed"]
\* is truthy, or attrs["aria-expanded"] is truthy.
C9_ActiveIff ==
  Truthy(isActive) <=>
    \/ pressed = JSBool(TRUE)
    \/ ariaPressedAttr \notin C9_Falsy
    \/ ariaExpandedAttr \notin C9_Falsy

C9_Witness ==
  /\ pressed = JSBool(FALSE)
  /\ ariaPressedAttr = Undefined
  /\ ariaExpandedAttr = JSStr("false")
  /\ Truthy(isActive)

\* C8: an active control with one of the three pressable variants gets the
\* class <variant>-pressed; a control that is not active, or whose variant
\* is any other one (plain--avoid included), gets the variant unchanged.
C8_Pressable == {"bordered-white", "bordered-tx", "transparent-dark"}

C8_VariantClass ==
  LET active == \/ pressed = JSBool(TRUE)
                \/ ariaPressedAttr \notin C9_Falsy
                \/ ariaExpandedAttr \notin C9_Falsy
  IN /\ (active /\ variant = "bordered-white") =>
          Template.class = "bordered-white-pressed"
     /\ (active /\ variant = "bordered-tx") =>
          Template.class = "bordered-tx-pressed"
     /\ (active /\ variant = "transparent-dark") =>
          Template.class = "transparent-dark-pressed"
     /\ ~active => Template.class = variant
     /\ variant \notin C8_Pressable => Template.class = variant

C8_Witness ==
  /\ variant = "bordered-tx"
  /\ pressed = Undefined
  /\ ariaExpandedAttr = JSBool(TRUE)
  /\ Template.class = "bordered-tx-pressed"

\* String.prototype.split on a one-character separator, read off the
\* characters of the string from position i on.
RECURSIVE SplitFrom(_, _, _, _, _)
SplitFrom(str, sep, i, cur, acc) ==
  IF i > Len(str) THEN Append(acc, cur)
  ELSE IF SubSeq(str, i, i) = sep
       THEN SplitFrom(str, sep, i + 1, "", Append(acc, cur))
       ELSE SplitFrom(str, sep, i + 1, cur \o SubSeq(str, i, i), acc)

Split(str, sep) == SplitFrom(str, sep, 1, "", <<>>)

BackPressed == [target |-> "back", type |-> "mousedown", device |-> "mouse"]

\* C3: at every moment, each navigation started from the back control has
\* its own GO_BACK_FROM_SENSITIVE_RESULT emission at or before it, so the
\* navigations never outnumber the emissions.
C3_BackNavigationEmits == Len(navigations) <= Len(analytics)

\* C4: a step that invokes the back action (the mousedown on the back
\* control) appends exactly one analytics emission, named
\* GO_BACK_FROM_SENSITIVE_RESULT, whose id is the content id and whose
\* sensitivities split at the commas into the reason codes in input order,
\* and it raises no reveal signal.
C4_BackEmitsOnce ==
  [][lastEvent' = BackPressed =>
       /\ Len(analytics') = Len(analytics) + 1
       /\ SubSeq(analytics', 1, Len(analytics)) = analytics
       /\ LET e == analytics'[Len(analytics')]
          IN /\ e.name = "GO_BACK_FROM_SENSITIVE_RESULT"
             /\ e.payload.id = id
             /\ Split(e.payload.sensitivities, ",") = sensitivity
       /\ reveals' = reveals
    ]_vars

C4_Witness ==
  /\ lastEvent = BackPressed
  /\ Len(sensitivity) = 2
  /\ Len(analytics) = 1
  /\ analytics[1].payload.sensitivities = sensitivity[1] \o "," \o sensitivity[2]

\* C5: a step that invokes the show action (a click on the show control)
\* raises exactly one reveal signal, without arguments, starts no navigation
\* and emits nothing to analytics.
C5_ShowRevealsOnly ==
  [][(lastEvent'.target = "show" /\ lastEvent'.type = "click") =>
       /\ reveals' = Append(reveals, [name |-> "reveal", args |-> <<>>])
       /\ navigations' = navigations
       /\ analytics' = analytics
    ]_vars

C5_Witness ==
  /\ lastEvent = [target |-> "show", type |-> "click", device |-> "keyboard"]
  /\ Len(reveals) = 1
  /\ Len(analytics) = 1

\* C6: the gate starts Hidden; it changes only from Hidden to Revealed and
\* only in a step that invokes the show action; a step on the back control
\* never changes it, and once Revealed it stays Revealed.
C6_GateOneWay ==
  /\ gate = "Hidden"
  /\ [][/\ gate # gate' =>
             /\ gate = "Hidden" /\ gate' = "Revealed"
             /\ lastEvent'.target = "show" /\ lastEvent'.type = "click"
        /\ lastEvent'.target = "back" => gate' = gate
        /\ gate = "Revealed" => gate' = "Revealed"
       ]_vars

C6_Witness ==
  /\ gate = "Revealed"
  /\ Len(reveals) = 2
  /\ lastEvent = [target |-> "back", type |-> "click", device |-> "mouse"]
  /\ Len(navigations) = 1

\* C11: whenever `as` is anything other than "button" (VLink, a or
\* NuxtLink), the type prop is ignored: no type attribute is rendered.
C11_TypeIgnoredUnlessButton == as # "button" => ~Emitted("type")

\* C16: aria-disabled and the native disabled attribute are never rendered
\* together, and neither is rendered while disabled is false, for every
\* form and after any sequence of prop changes.
C16_DisabledExclusive ==
  /\ ~(Emitted("ariaDisabled") /\ Emitted("disabled"))
  /\ ~disabled => (~Emitted("ariaDisabled") /\ ~Emitted("disabled"))

C16_Witness ==
  /\ disabled /\ ~focusableWhenDisabled
  /\ as = "a"
  /\ Emitted("disabled")
  /\ ~Emitted("ariaDisabled")
  /\ Len(warnings) >= 1

\* C12: the href of the back control is the recorded return-to-search path
\* when one is recorded, and "/" when none is (the recorded value is empty).
C12_BackTarget ==
  /\ Template.is = "VLinkComponent"
  /\ Template.href = IF backToSearchPath = JSStr("") THEN JSStr("/")
                     ELSE backToSearchPath

C12_Witness ==
  /\ backToSearchPath = JSStr("")
  /\ navigations = <<JSStr("/search?q=cat"), JSStr("/")>>

\* C13: a native click, mousedown, keydown, focus or blur event delivered to
\* a control is re-emitted by its VButton exactly once, under the same name,
\* with that event object as the only argument, and nothing else is emitted
\* for it.
C13_Bound == {"click", "mousedown", "keydown", "focus", "blur"}

C13_EventsReEmitted ==
  lastEvent.type \in C13_Bound =>
    /\ Len(emitted) = 1
    /\ emitted[1].name = lastEvent.type
    /\ emitted[1].args = <<lastEvent>>

C13_Witness ==
  /\ lastEvent = [target |-> "back", type |-> "keydown", device |-> "keyboard"]
  /\ emitted = <<[name |-> "keydown", args |-> <<lastEvent>>]>>
  /\ Len(analytics) = 0

\* C14: the connection class string is the tokens "connection-<edge>", one
\* per flag of the list and in its order, separated by single spaces; the
\* empty list gives "" and [start, bottom] gives
\* "connection-start connection-bottom".
C14_ConnectionClasses ==
  /\ connections = <<>> => Template.connectionStyles = ""
  /\ connections # <<>> =>
       Split(Template.connectionStyles, " ") =
         [i \in 1..Len(connections) |-> "connection-" \o connections[i]]
  /\ connections = <<"start", "bottom">> =>
       Template.connectionStyles = "connection-start connection-bottom"

C14_Witness ==
  /\ connections = <<"start", "bottom">>
  /\ Template.connectionStyles = "connection-start connection-bottom"

\* C15: a variant prefixed "filled-" gets focus-slim-filled and not
\* focus-slim-tx; a variant prefixed "bordered-" or "transparent-", or equal
\* to "plain", gets focus-slim-tx and not focus-slim-filled; "plain--avoid"
\* gets neither and no border class.
C15_FocusRing ==
  LET classes == Template.classObject
  IN /\ variant \in {"filled-dark"} =>
          /\ "focus-slim-filled" \in classes
          /\ "focus-slim-tx" \notin classes
     /\ variant \in {"bordered-white", "bordered-tx", "bordered-gray",
                     "transparent-dark", "plain"} =>
          /\ "focus-slim-tx" \in classes
          /\ "focus-slim-filled" \notin classes
     /\ variant = "plain--avoid" =>
          /\ "focus-slim-filled" \notin classes
          /\ "focus-slim-tx" \notin classes
          /\ "border" \notin classes

C15_Witness ==
  /\ variant = "plain--avoid"
  /\ Template.classObject = {"focus-visible:outline-tx"}
  /\ pressed = JSBool(TRUE)

====
